---- MODULE Spec2Model ----
(***************************************************************************)
(* A model of core/ini.py of MouseTracks: the typed configuration store    *)
(* (Config, _ConfigDict, the _ConfigItem classes) with its text codec.     *)
(*                                                                         *)
(* Python strings are sequences of one-character tokens; the tokens NL and *)
(* BSL stand for the newline and the backslash character.  Python values   *)
(* are records [t, s, n]: t is the Python type ("str", "int", "bool",      *)
(* "none"), s the text of a str and n the number of an int or bool.        *)
(***************************************************************************)
EXTENDS Integers, Sequences, FiniteSets, TLC

\* ------------------------------------------------------------------------
\* Python strings
\* ------------------------------------------------------------------------

NL == "<nl>"

BSL == "<bsl>"

Whitespace == {" ", NL}

Digits == {"0", "1", "2", "3", "4", "5", "6", "7", "8", "9"}

DigitValue == [c \in Digits |->
    CASE c = "0" -> 0 [] c = "1" -> 1 [] c = "2" -> 2 [] c = "3" -> 3
      [] c = "4" -> 4 [] c = "5" -> 5 [] c = "6" -> 6 [] c = "7" -> 7
      [] c = "8" -> 8 [] c = "9" -> 9]

DigitChar == <<"0", "1", "2", "3", "4", "5", "6", "7", "8", "9">>

\* str.lower() on one character: the upper-case letters of the alphabet used.
LowerTable == ("A" :> "a") @@ ("B" :> "b") @@ ("F" :> "f") @@ ("H" :> "h")
    @@ ("L" :> "l") @@ ("M" :> "m") @@ ("N" :> "n") @@ ("Q" :> "q")
    @@ ("T" :> "t") @@ ("Z" :> "z")

LowerChar(c) == IF c \in DOMAIN LowerTable THEN LowerTable[c] ELSE c

\* str.lower()
Lower(s) == [i \in 1..Len(s) |-> LowerChar(s[i])]

RECURSIVE LStrip(_)
LStrip(s) == IF s # <<>> /\ Head(s) \in Whitespace THEN LStrip(Tail(s)) ELSE s

RECURSIVE RStrip(_)
RStrip(s) ==
    IF s # <<>> /\ s[Len(s)] \in Whitespace
    THEN RStrip(SubSeq(s, 1, Len(s) - 1))
    ELSE s

\* str.strip()
Strip(s) == RStrip(LStrip(s))

\* str.find(sub) + 1: the first position where sub starts in s, 0 when absent.
Find(s, sub) ==
    LET hits == {i \in 1..(Len(s) - Len(sub) + 1) :
                    SubSeq(s, i, i + Len(sub) - 1) = sub}
    IN IF hits = {} THEN 0 ELSE CHOOSE i \in hits : \A j \in hits : i <= j

\* s.split(sep)[0]
SplitFirst(s, sep) ==
    LET at == Find(s, sep)
    IN IF at = 0 THEN s ELSE SubSeq(s, 1, at - 1)

\* s.split(sep, 1): one or two parts.
SplitOnce(s, sep) ==
    LET at == Find(s, sep)
    IN IF at = 0 THEN <<s>>
       ELSE <<SubSeq(s, 1, at - 1), SubSeq(s, at + Len(sep), Len(s))>>

\* s.split('\n'): every line of a text.
RECURSIVE SplitLines(_)
SplitLines(s) ==
    LET at == Find(s, <<NL>>)
    IN IF at = 0 THEN <<s>>
       ELSE <<SubSeq(s, 1, at - 1)>> \o SplitLines(SubSeq(s, at + 1, Len(s)))

\* sep.join(parts)
RECURSIVE Join(_, _)
Join(parts, sep) ==
    IF parts = <<>> THEN <<>>
    ELSE IF Len(parts) = 1 THEN parts[1]
    ELSE parts[1] \o sep \o Join(Tail(parts), sep)

\* s.replace(old, new) for a one-character old.
RECURSIVE Replace(_, _, _)
Replace(s, old, new) ==
    IF s = <<>> THEN <<>>
    ELSE (IF Head(s) = old THEN new ELSE <<Head(s)>>)
         \o Replace(Tail(s), old, new)

RECURSIVE DigitsValue(_)
DigitsValue(s) ==
    IF s = <<>> THEN 0
    ELSE 10 * DigitsValue(SubSeq(s, 1, Len(s) - 1)) + DigitValue[s[Len(s)]]

IsSigned(t) == t # <<>> /\ Head(t) \in {"-", "+"}

Unsigned(t) == IF IsSigned(t) THEN Tail(t) ELSE t

AllDigits(t) == t # <<>> /\ \A i \in 1..Len(t) : t[i] \in Digits

\* int(text) on text already stripped: one sign is allowed; anything but
\* digits after it is a ValueError (ok is FALSE).
ParseStripped(t) ==
    [ok |-> AllDigits(Unsigned(t)),
     n |-> IF ~AllDigits(Unsigned(t)) THEN 0
           ELSE IF IsSigned(t) /\ Head(t) = "-" THEN 0 - DigitsValue(Unsigned(t))
           ELSE DigitsValue(Unsigned(t))]

\* int(text): surrounding whitespace is allowed.
ParseInt(s) == ParseStripped(Strip(s))

RECURSIVE NatToStr(_)
NatToStr(n) ==
    IF n < 10 THEN <<DigitChar[n + 1]>>
    ELSE NatToStr(n \div 10) \o <<DigitChar[(n % 10) + 1]>>

\* str(n) of an int
IntToStr(n) == IF n < 0 THEN <<"-">> \o NatToStr(0 - n) ELSE NatToStr(n)

\* ------------------------------------------------------------------------
\* Python values
\* ------------------------------------------------------------------------

StrV(s) == [t |-> "str", s |-> s, n |-> 0]

IntV(n) == [t |-> "int", s |-> <<>>, n |-> n]

BoolV(b) == [t |-> "bool", s |-> <<>>, n |-> IF b THEN 1 ELSE 0]

None == [t |-> "none", s |-> <<>>, n |-> 0]

\* str(value), also '{}'.format(value)
PyStr(v) ==
    CASE v.t = "str" -> v.s
      [] v.t = "int" -> IntToStr(v.n)
      [] v.t = "bool" -> IF v.n = 1 THEN <<"T", "r", "u", "e">>
                         ELSE <<"F", "a", "l", "s", "e">>
      [] v.t = "none" -> <<"N", "o", "n", "e">>

IntResult(parsed) ==
    IF parsed.ok THEN [exc |-> "none", val |-> IntV(parsed.n)]
    ELSE [exc |-> "ValueError", val |-> None]

\* int(value): the result, or the exception it raises.
PyInt(v) ==
    CASE v.t = "str" -> IntResult(ParseInt(v.s))
      [] v.t \in {"int", "bool"} -> [exc |-> "none", val |-> IntV(v.n)]
      [] v.t = "none" -> [exc |-> "TypeError", val |-> None]

\* bool(value)
PyBool(v) ==
    CASE v.t = "str" -> v.s # <<>>
      [] v.t \in {"int", "bool"} -> v.n # 0
      [] v.t = "none" -> FALSE

\* type(value), as the key of create_config_item's table ("NoneType" has no
\* entry there).
PyType(v) == IF v.t = "none" THEN "NoneType" ELSE v.t

\* A dictionary key that is absent.
Missing == [t |-> "missing", s |-> <<>>, n |-> 0]

\* ------------------------------------------------------------------------
\* Entries.  An entry of the default schema or of the store is a record:
\*   kind: "dict" (a metadata dictionary), "scalar" (a bare str, int or bool,
\*         held in value) or "other" (any other object);
\*   value, type, default, lock, min, max, has_valid / valid,
\*   case_sensitive, allow_empty, priority (__priority__), comment (__info__)
\* min, max and priority are None when the key is absent; value, comment and
\* default are Missing when absent; type is "str", "int", "bool", "NoneType"
\* or "missing" (no 'type' key).
\* ------------------------------------------------------------------------

\* The falsy words of _ConfigItemBool._validate.
FalsyWords == {<<"0">>, <<"f">>, <<"f", "a", "l", "s", "e">>, <<"n", "o">>,
               <<"n", "u", "l", "l">>, <<"n">>}

Returned(v) == [exc |-> "none", val |-> v]

Raised(e) == [exc |-> e, val |-> None]

PyMax(a, b) == IF a >= b THEN a ELSE b

PyMin(a, b) == IF a <= b THEN a ELSE b

\* The number as it is, with neither bound applied.
Unclamped(info, n) == n

\* The clamping of _ConfigItemNumber._validate: max(value, min) when a minimum
\* is set, then min(value, max) when a maximum is set.
Clamp(info, n) ==
    LET lo == IF info.min # None THEN PyMax(n, info.min.n) ELSE n
    IN IF info.max # None THEN PyMin(lo, info.max.n) ELSE lo

\* The rest of _ConfigItemNumber._validate once int(value) has returned or
\* raised: None on a ValueError, any other exception leaves the method.
ClampResult(info, number) ==
    IF number.exc = "ValueError" THEN Returned(None)
    ELSE IF number.exc # "none" THEN Raised(number.exc)
    ELSE Returned(IntV(Clamp(info, number.val.n)))

\* _ConfigItemNumber._validate
ValidateNumber(info, value) ==
    IF info.lock THEN Returned(None) ELSE ClampResult(info, PyInt(value))

\* The rest of _ConfigItemStr._validate on the stripped text.
CheckStr(info, v) ==
    IF v = <<>>
    THEN (IF info.allow_empty THEN Returned(StrV(v)) ELSE Returned(None))
    ELSE IF ~info.has_valid THEN Returned(StrV(v))
    ELSE IF info.case_sensitive
    THEN (IF v \notin info.valid THEN Returned(None) ELSE Returned(StrV(v)))
    ELSE (IF Lower(v) \notin {Lower(i) : i \in info.valid}
          THEN Returned(None) ELSE Returned(StrV(Lower(v))))

\* _ConfigItemStr._validate
ValidateStr(info, value) ==
    IF info.lock THEN Returned(None) ELSE CheckStr(info, Strip(PyStr(value)))

\* A validation by bool(value) alone, with no falsy words.
ValidateTruthiness(info, value) ==
    IF info.lock THEN Returned(None) ELSE Returned(BoolV(PyBool(value)))

\* _ConfigItemBool._validate
ValidateBool(info, value) ==
    IF info.lock THEN Returned(None)
    ELSE IF value.t = "str"
         THEN Returned(BoolV(Lower(value.s) \notin FalsyWords))
    ELSE Returned(BoolV(PyBool(value)))

\* item._validate(value), by the class create_config_item chose for the type.
Validate(info, value) ==
    CASE info.type = "str" -> ValidateStr(info, value)
      [] info.type = "int" -> ValidateNumber(info, value)
      [] info.type = "bool" -> ValidateBool(info, value)

\* self.type(x) of _ConfigItem.__init__: str(x), int(x) or bool(x).
Coerce(type, x) ==
    CASE type = "str" -> Returned(StrV(PyStr(x)))
      [] type = "int" -> PyInt(x)
      [] type = "bool" -> Returned(BoolV(PyBool(x)))

\* _ConfigItemStr.__new__: the stored value is replaced by its lower-case form
\* when the entry's case_sensitive flag is set.
StrNew(info) ==
    IF info.case_sensitive /\ info.value.t = "str"
    THEN [info EXCEPT !.value = StrV(Lower(info.value.s))]
    ELSE info

\* The assignment of _ConfigItem.__init__ once self.type(...) has returned or
\* raised.
InitDefault(info, c) ==
    IF c.exc # "none" THEN [exc |-> c.exc, info |-> info]
    ELSE [exc |-> "none", info |-> [info EXCEPT !.default = c.val]]

\* _ConfigItem.__init__: the default becomes type(default), the value standing
\* in for an absent default.
ItemInit(info) ==
    InitDefault(info, Coerce(info.type, IF info.default = Missing
                                        THEN info.value ELSE info.default))

\* int.__new__(cls, value) of _ConfigItemInt and _ConfigItemBool, then __init__.
IntNew(info, number) ==
    IF number.exc # "none" THEN [exc |-> number.exc, info |-> info]
    ELSE ItemInit(info)

\* create_config_item(config_dict): builds the view of an entry; what it does
\* to the entry's dictionary, and the exception it raises if any.
CreateConfigItem(info) ==
    CASE info.type = "str" ->
            IF info.value.t # "str" /\ info.case_sensitive
            THEN [exc |-> "AttributeError", info |-> info]
            ELSE ItemInit(StrNew(info))
      [] info.type \in {"int", "bool"} -> IntNew(info, PyInt(info.value))
      [] OTHER -> [exc |-> "KeyError", info |-> info]

\* The assignment of the value setter once _validate has returned or raised.
StoreValidated(info, validated_value) ==
    IF validated_value.exc # "none"
    THEN [exc |-> validated_value.exc, info |-> info]
    ELSE IF validated_value.val # None
    THEN [exc |-> "none", info |-> [info EXCEPT !.value = validated_value.val]]
    ELSE [exc |-> "none", info |-> info]

\* The value setter of _ConfigItem applied to a view's dictionary.
SetValue(info, value) == StoreValidated(info, Validate(info, value))

\* view.value = value on the view create_config_item returned (or its
\* exception).
AssignThrough(config_item, value) ==
    IF config_item.exc # "none" THEN config_item
    ELSE SetValue(config_item.info, value)

\* view.lock = value on the view create_config_item returned.
LockThrough(config_item, value) ==
    IF config_item.exc # "none" THEN config_item
    ELSE [exc |-> "none", info |-> [config_item.info EXCEPT !.lock = value]]

\* The dictionary _ConfigDict.__setitem__ creates for an absent item (the store
\* is built with default_settings=None).
NewInfo(value) ==
    [kind |-> "dict", value |-> value, type |-> PyType(value), default |-> Missing,
     lock |-> FALSE, min |-> None, max |-> None, has_valid |-> FALSE,
     valid |-> {}, case_sensitive |-> FALSE, allow_empty |-> FALSE,
     priority |-> None, comment |-> Missing]

\* The tail of _ConfigDict.__setitem__ on the item's dictionary: nothing when
\* locked, else build the view and assign through its value setter.
WriteInfo(info, value) ==
    IF info.lock THEN [exc |-> "none", info |-> info]
    ELSE AssignThrough(CreateConfigItem(info), value)

\* The section with the item's dictionary as the call left it.
PutItem(sec, item, r) == [exc |-> r.exc, sec |-> (item :> r.info) @@ sec]

\* _ConfigDict.__setitem__ on a section (a function from names to entries).
SetItem(sec, editable_dict, item, value) ==
    IF item \in DOMAIN sec THEN PutItem(sec, item, WriteInfo(sec[item], value))
    ELSE IF ~editable_dict THEN [exc |-> "KeyError", sec |-> sec]
    ELSE PutItem(sec, item, WriteInfo(NewInfo(value), value))

\* ------------------------------------------------------------------------
\* Ordering (sorted() and _get_priority_order)
\* ------------------------------------------------------------------------

\* The characters in code-point order.
Alphabet == <<NL, " ", "+", "-", "/",
              "0", "1", "2", "3", "4", "5", "6", "7", "8", "9", "=",
              "A", "B", "F", "H", "L", "M", "N", "Q", "T", "Z",
              "[", BSL, "]", "_",
              "a", "b", "c", "d", "e", "f", "g", "h", "i", "j", "k", "l", "m",
              "n", "o", "p", "q", "r", "s", "t", "u", "v", "w", "x", "y", "z">>

Ord(c) == CHOOSE i \in 1..Len(Alphabet) : Alphabet[i] = c

\* a < b for Python strings
RECURSIVE StrLess(_, _)
StrLess(a, b) ==
    IF b = <<>> THEN FALSE
    ELSE IF a = <<>> THEN TRUE
    ELSE IF Head(a) = Head(b) THEN StrLess(Tail(a), Tail(b))
    ELSE Ord(Head(a)) < Ord(Head(b))

\* The keys from the greatest down.
RECURSIVE SortedDescending(_)
SortedDescending(S) ==
    IF S = {} THEN <<>>
    ELSE LET m == CHOOSE x \in S : \A y \in S \ {x} : StrLess(y, x)
         IN <<m>> \o SortedDescending(S \ {m})

\* sorted(keys)
RECURSIVE Sorted(_)
Sorted(S) ==
    IF S = {} THEN <<>>
    ELSE LET m == CHOOSE x \in S : \A y \in S \ {x} : StrLess(x, y)
         IN <<m>> \o Sorted(S \ {m})

\* The reserved key of a priority.
PriorityKey == <<"_", "_", "p", "r", "i", "o", "r", "i", "t", "y", "_", "_">>

\* v.get('__priority__', None) for an entry of a heading: None for a value
\* that is no dictionary (the AttributeError branch).
EntryPriority(raw) == IF raw.kind = "dict" THEN raw.priority ELSE None

\* v.get('__priority__', None) for a heading of the schema: the value stored
\* under the reserved key of the heading's mapping.
HeadingPriority(section) ==
    IF PriorityKey \in DOMAIN section /\ section[PriorityKey].kind = "scalar"
    THEN section[PriorityKey].value
    ELSE None

\* The dict of keys grouped by priority, private keys left out; priority_of
\* maps every key to its priority.
PriorityGroups(priority_of) ==
    LET keys == {k \in DOMAIN priority_of : k = <<>> \/ Head(k) # "_"}
        prios == {priority_of[k] : k \in keys}
    IN [p \in prios |-> {k \in keys : priority_of[k] = p}]

Without(f, x) == [y \in DOMAIN f \ {x} |-> f[y]]

\* The while loop of _get_priority_order.
RECURSIVE PriorityLoop(_, _, _, _, _)
PriorityLoop(priorities, current, order, end, empty_goes_last) ==
    IF DOMAIN priorities = {} THEN order \o end
    ELSE IF IntV(current) \in DOMAIN priorities
    THEN PriorityLoop(Without(priorities, IntV(current)), current + 1,
                      order \o Sorted(priorities[IntV(current)]), end,
                      empty_goes_last)
    ELSE IF None \notin DOMAIN priorities
    THEN PriorityLoop(priorities, current + 1, order, end, empty_goes_last)
    ELSE IF empty_goes_last
    THEN PriorityLoop(Without(priorities, None), current + 1, order,
                      Sorted(priorities[None]), empty_goes_last)
    ELSE PriorityLoop(Without(priorities, None), current + 1,
                      order \o Sorted(priorities[None]), end, empty_goes_last)

\* The order with the loop started at slot 0 whatever the priorities are.
OrderFromZero(priority_of, empty_goes_last) ==
    PriorityLoop(PriorityGroups(priority_of), 0, <<>>, <<>>, empty_goes_last)

\* _get_priority_order(values, empty_goes_last=...), values given by the
\* priority of each of its keys.
GetPriorityOrder(priority_of, empty_goes_last) ==
    LET priorities == PriorityGroups(priority_of)
        explicit == {p.n : p \in DOMAIN priorities \ {None}}
        current == IF explicit = {} THEN 0
                   ELSE CHOOSE i \in explicit : \A j \in explicit : i <= j
    IN PriorityLoop(priorities, current, <<>>, <<>>, empty_goes_last)

\* The default of the parameter empty_goes_last.
EmptyGoesLast == TRUE

\* _get_priority_order(section, empty_goes_last=arg), or with the parameter
\* left out when arg is Missing.
OrderOf(section, arg) ==
    GetPriorityOrder([k \in DOMAIN section |-> EntryPriority(section[k])],
                     IF arg = Missing THEN EmptyGoesLast ELSE arg.n = 1)

\* _get_priority_order(self._default[heading])
VariableOrder(section) ==
    GetPriorityOrder([k \in DOMAIN section |-> EntryPriority(section[k])], TRUE)

\* _get_priority_order(self._default)
HeadingOrder(schema) ==
    GetPriorityOrder([h \in DOMAIN schema |-> HeadingPriority(schema[h])], TRUE)

\* ------------------------------------------------------------------------
\* Config
\* ------------------------------------------------------------------------

\* Config._DEFAULT_VALUES
DefaultValues == ("int" :> IntV(0)) @@ ("str" :> StrV(<<>>)) @@ ("bool" :> BoolV(FALSE))

\* The body of the inner loop of Config._load_from_dict for one entry that
\* is kept (a scalar or a dictionary), with default_settings=None.
Normalize(raw) ==
    LET typed == IF raw.kind = "scalar" \/ raw.type = "missing"
                 THEN [raw EXCEPT !.kind = "dict", !.type = PyType(raw.value)]
                 ELSE IF raw.value = Missing
                 THEN [raw EXCEPT !.value = DefaultValues[raw.type]]
                 ELSE raw
    IN [typed EXCEPT !.default = typed.value]

\* Config._load_from_dict: the store's _data built from the default schema.
LoadFromDict(config_dict) ==
    [heading \in DOMAIN config_dict |->
        [var \in {v \in DOMAIN config_dict[heading] :
                     config_dict[heading][v].kind # "other"} |->
            Normalize(config_dict[heading][var])]]

\* Config._load_from_dict: the _backup snapshot.
BackupOf(config_dict) ==
    [heading \in DOMAIN config_dict |->
        [var \in DOMAIN LoadFromDict(config_dict)[heading] |->
            LoadFromDict(config_dict)[heading][var].value]]

\* The parsing half of one iteration of Config._update_from_file: what the
\* line is once its comment and surrounding whitespace are stripped.
\*   blank      nothing is left
\*   header     [Name]: name is the new header
\*   malformed  no '=': the unpacking raises ValueError
\*   assign     variable = value
ParseLine(rawline) ==
    LET line == Strip(SplitFirst(Strip(rawline), <<"/", "/">>))
        parts == SplitOnce(line, <<"=">>)
    IN IF line = <<>> THEN [kind |-> "blank", name |-> <<>>, value |-> <<>>]
       ELSE IF line[1] = "[" /\ line[Len(line)] = "]"
       THEN [kind |-> "header", name |-> SubSeq(line, 2, Len(line) - 1),
             value |-> <<>>]
       ELSE IF Len(parts) = 1
       THEN [kind |-> "malformed", name |-> <<>>, value |-> <<>>]
       ELSE [kind |-> "assign", name |-> Strip(parts[1]),
             value |-> Strip(parts[2])]

\* f.readlines() of an opened file, each line parsed.
ParseLines(text) ==
    LET lines == SplitLines(text)
    IN [i \in 1..Len(lines) |-> ParseLine(lines[i])]

\* The except clause around the assignment of Config._update_from_file: a
\* KeyError is passed over.
AssignLine(st, r) ==
    IF r.exc = "KeyError" THEN st
    ELSE [st EXCEPT !.data[st.header.s] = r.sec, !.exc = r.exc]

\* One iteration that passes over a line with no '=' as over a blank one.
ApplyLineLenient(st, item, editable_dict) ==
    IF st.exc # "none" \/ item.kind \in {"blank", "malformed"} THEN st
    ELSE IF item.kind = "header" THEN [st EXCEPT !.header = StrV(item.name)]
    ELSE IF st.header = Missing THEN [st EXCEPT !.exc = "UnboundLocalError"]
    ELSE IF st.header.s \notin DOMAIN st.data THEN st
    ELSE AssignLine(st, SetItem(st.data[st.header.s], editable_dict,
                                item.name, StrV(item.value)))

\* The acting half of one iteration of Config._update_from_file.
\* st = [data, header, exc]; header is Missing until the first [Name] line.
ApplyLine(st, item, editable_dict) ==
    IF st.exc # "none" \/ item.kind = "blank" THEN st
    ELSE IF item.kind = "header" THEN [st EXCEPT !.header = StrV(item.name)]
    ELSE IF item.kind = "malformed" THEN [st EXCEPT !.exc = "ValueError"]
    ELSE IF st.header = Missing THEN [st EXCEPT !.exc = "UnboundLocalError"]
    ELSE IF st.header.s \notin DOMAIN st.data THEN st
    ELSE AssignLine(st, SetItem(st.data[st.header.s], editable_dict,
                                item.name, StrV(item.value)))

RECURSIVE ApplyLines(_, _, _)
ApplyLines(st, items, editable_dict) ==
    IF items = <<>> THEN st
    ELSE ApplyLines(ApplyLine(st, Head(items), editable_dict), Tail(items),
                    editable_dict)

Outcome(st) == [data |-> st.data, exc |-> st.exc]

\* Config._update_from_file on the parsed lines of an opened file: [data, exc].
UpdateFromFile(data, items, editable_dict) ==
    Outcome(ApplyLines([data |-> data, header |-> Missing, exc |-> "none"],
                       items, editable_dict))

\* A file that cannot be opened.
NoFile == <<"<no file>">>

\* default_files[::-1]
Reverse(s) == [i \in 1..Len(s) |-> s[Len(s) + 1 - i]]

\* The first loop of Config.load over the reversed fallback files; files maps
\* a file name to its parsed lines or to NoFile.
RECURSIVE LoadFallbacks(_, _, _, _, _)
LoadFallbacks(st, names, config_file, files, editable_dict) ==
    IF names = <<>> \/ st.exc # "none" THEN st
    ELSE IF Head(names) = "" \/ Head(names) = config_file
            \/ files[Head(names)] = NoFile
    THEN LoadFallbacks(st, Tail(names), config_file, files, editable_dict)
    ELSE LoadFallbacks(UpdateFromFile(st.data, files[Head(names)], editable_dict),
                       Tail(names), config_file, files, editable_dict)

WithNew(r, is_new) == [data |-> r.data, is_new |-> is_new, exc |-> r.exc]

\* The second half of a load that lets the IOError of the primary file pass
\* as it does a fallback's, without the mark.
LoadPrimaryUnmarked(st, is_new, config_file, files, editable_dict) ==
    IF st.exc # "none" \/ files[config_file] = NoFile THEN WithNew(st, is_new)
    ELSE WithNew(UpdateFromFile(st.data, files[config_file], editable_dict),
                 is_new)

\* The second half of Config.load: the primary file, after the fallbacks.
LoadPrimary(st, is_new, config_file, files, editable_dict) ==
    IF st.exc # "none" THEN WithNew(st, is_new)
    ELSE IF files[config_file] = NoFile THEN WithNew(st, TRUE)
    ELSE WithNew(UpdateFromFile(st.data, files[config_file], editable_dict),
                 is_new)

\* Config.load(config_file, *default_files): [data, is_new, exc].
LoadOp(data, is_new, config_file, default_files, files, editable_dict) ==
    LoadPrimary(LoadFallbacks([data |-> data, exc |-> "none"],
                              Reverse(default_files), config_file, files,
                              editable_dict),
                is_new, config_file, files, editable_dict)

\* The store with one section as a call left it.
InData(data, heading, r) ==
    [data |-> [data EXCEPT ![heading] = r.sec], exc |-> r.exc]

\* The store with one entry's dictionary as a call left it.
InEntry(data, heading, var, r) ==
    [data |-> [data EXCEPT ![heading][var] = r.info], exc |-> r.exc]

\* self[heading][var] = value
SetOp(data, heading, var, value, editable_dict) ==
    IF heading \notin DOMAIN data THEN [data |-> data, exc |-> "KeyError"]
    ELSE InData(data, heading,
                SetItem(data[heading], editable_dict, var, value))

\* del self[heading][var]: Config.__getitem__, then _ConfigDict.__delitem__,
\* which looks at no flag of the store.
DelItemOp(data, heading, var) ==
    IF heading \notin DOMAIN data \/ var \notin DOMAIN data[heading]
    THEN [data |-> data, exc |-> "KeyError"]
    ELSE [data |-> [data EXCEPT ![heading] = Without(data[heading], var)],
          exc |-> "none"]

\* del self[heading]: Config.__delitem__, which looks at no flag either.
DelHeadingOp(data, heading) ==
    IF heading \notin DOMAIN data THEN [data |-> data, exc |-> "KeyError"]
    ELSE [data |-> Without(data, heading), exc |-> "none"]

\* The store with the heading present: self._data[item] = {} when absent.
WithHeading(data, item) ==
    IF item \in DOMAIN data THEN data ELSE (item :> [k \in {} |-> None]) @@ data

\* A mapping given as the value of a heading assignment.
MappingV(entries) == [t |-> "dict", s |-> <<>>, n |-> 0, entries |-> entries]

\* The branches of Config.__setitem__ on the kind of value, the heading
\* being present: a mapping's items are stored as they are, None deletes the
\* heading, anything else is a TypeError.
AssignHeading(data, item, value) ==
    CASE value.t = "dict" ->
            [data |-> [data EXCEPT ![item] = value.entries @@ data[item]],
             exc |-> "none"]
      [] value.t = "none" -> [data |-> Without(data, item), exc |-> "none"]
      [] OTHER -> [data |-> data, exc |-> "TypeError"]

\* The heading assignment with no test of the store's editable flag.
SetHeadingUngated(data, editable_dict, item, value) ==
    AssignHeading(WithHeading(data, item), item, value)

\* self[item] = value: Config.__setitem__
SetHeadingOp(data, editable_dict, item, value) ==
    IF ~editable_dict THEN [data |-> data, exc |-> "KeyError"]
    ELSE AssignHeading(WithHeading(data, item), item, value)

\* Config.reload: every backup value is assigned through the section's
\* __setitem__; [data, exc].
RECURSIVE ReloadVars(_, _, _, _, _)
ReloadVars(st, heading, vars, bak, editable_dict) ==
    IF vars = {} \/ st.exc # "none" THEN st
    ELSE LET var == CHOOSE v \in vars : TRUE
         IN ReloadVars(SetOp(st.data, heading, var, bak[heading][var],
                             editable_dict),
                       heading, vars \ {var}, bak, editable_dict)

RECURSIVE ReloadHeadings(_, _, _, _)
ReloadHeadings(st, headings, bak, editable_dict) ==
    IF headings = {} \/ st.exc # "none" THEN st
    ELSE LET heading == CHOOSE h \in headings : TRUE
         IN ReloadHeadings(ReloadVars(st, heading, DOMAIN bak[heading], bak,
                                      editable_dict),
                           headings \ {heading}, bak, editable_dict)

ReloadOp(data, bak, editable_dict) ==
    ReloadHeadings([data |-> data, exc |-> "none"], DOMAIN bak, bak, editable_dict)

\* The reserved key of a heading's or an entry's comment.
InfoKey == <<"_", "_", "i", "n", "f", "o", "_", "_">>

\* min_comment_spacing of Config._build_for_file
MinCommentSpacing == 8

Spaces(n) == [i \in 1..n |-> " "]

Prefix(lines, pre) == [i \in 1..Len(lines) |-> pre \o lines[i]]

\* The dictionary Config._build_for_file reads an entry from: the store's
\* own when changes is set, else the default schema's, given a type when it
\* has none (and then written back into the schema, which is the same object).
\* [exc, info, raw]: raw is what the schema's entry is afterwards.
BuildInfo(data, schema, heading, variable, changes) ==
    LET raw == schema[heading][variable]
    IN IF changes
       THEN (IF heading \notin DOMAIN data \/ variable \notin DOMAIN data[heading]
             THEN [exc |-> "KeyError", info |-> raw, raw |-> raw]
             ELSE [exc |-> "none", info |-> data[heading][variable], raw |-> raw])
       ELSE IF raw.kind # "dict"
       THEN [exc |-> "none",
             info |-> [raw EXCEPT !.type = IF raw.kind = "scalar"
                                            THEN PyType(raw.value) ELSE "object",
                                  !.comment = Missing],
             raw |-> raw]
       ELSE IF raw.type # "missing"
       THEN [exc |-> "none", info |-> raw, raw |-> raw]
       ELSE IF raw.value = Missing
       THEN [exc |-> "KeyError", info |-> raw, raw |-> raw]
       ELSE [exc |-> "none",
             info |-> [raw EXCEPT !.type = PyType(raw.value)],
             raw |-> [raw EXCEPT !.type = PyType(raw.value)]]

\* The 'name = value' line of one variable, with its comment.
VariableLine(info, variable, keys_only) ==
    LET value == IF info.value = Missing THEN DefaultValues[info.type]
                 ELSE info.value
        line == IF keys_only THEN variable \o <<" ", "=", " ">>
                ELSE Replace(variable \o <<" ", "=", " ">> \o PyStr(value),
                             NL, <<BSL, "n">>)
    IN IF info.comment # Missing /\ info.comment.s # <<>>
       THEN line \o Spaces(PyMax(MinCommentSpacing, 0 - Len(line)))
                 \o <<"/", "/", " ">> \o info.comment.s
       ELSE line

\* The loop of Config._build_for_file over the variables of one heading.
\* st = [out, schema, exc]: the output lines, the default schema, the
\* exception raised.
RECURSIVE BuildVariables(_, _, _, _, _, _, _)
BuildVariables(st, data, editable_dict, heading, variables, changes, keys_only) ==
    IF variables = <<>> \/ st.exc # "none" THEN st
    ELSE LET variable == Head(variables)
             rest == Tail(variables)
             b == BuildInfo(data, st.schema, heading, variable, changes)
         IN IF editable_dict /\ variable \notin DOMAIN data[heading]
            THEN BuildVariables(st, data, editable_dict, heading, rest,
                                changes, keys_only)
            ELSE IF b.exc # "none" THEN [st EXCEPT !.exc = b.exc]
            ELSE IF b.info.type \notin DOMAIN DefaultValues
            THEN [st EXCEPT !.schema[heading][variable] = b.raw,
                            !.exc = "KeyError"]
            ELSE BuildVariables(
                    [st EXCEPT !.schema[heading][variable] = b.raw,
                               !.out = st.out \o
                                   <<VariableLine(b.info, variable, keys_only)>>],
                    data, editable_dict, heading, rest, changes, keys_only)

\* The '// ' lines of a heading's comment.
HeadingInfo(schema, heading) ==
    IF InfoKey \notin DOMAIN schema[heading] THEN [exc |-> "none", out |-> <<>>]
    ELSE IF schema[heading][InfoKey].kind = "scalar"
            /\ schema[heading][InfoKey].value.t = "str"
    THEN [exc |-> "none",
          out |-> Prefix(SplitLines(schema[heading][InfoKey].value.s),
                         <<"/", "/", " ">>)]
    ELSE [exc |-> "AttributeError", out |-> <<>>]

\* The loop of Config._build_for_file over the headings.
RECURSIVE BuildHeadings(_, _, _, _, _, _)
BuildHeadings(st, data, editable_dict, headings, changes, keys_only) ==
    IF headings = <<>> \/ st.exc # "none" THEN st
    ELSE LET heading == Head(headings)
             rest == Tail(headings)
             hi == HeadingInfo(st.schema, heading)
             opened == [st EXCEPT !.out = st.out
                            \o <<(<<"[">> \o heading \o <<"]">>)>> \o hi.out]
             done == BuildVariables(opened, data, editable_dict, heading,
                        VariableOrder(st.schema[heading]),
                        changes, keys_only)
         IN IF editable_dict /\ heading \notin DOMAIN data
            THEN BuildHeadings(st, data, editable_dict, rest, changes, keys_only)
            ELSE IF hi.exc # "none" THEN [opened EXCEPT !.exc = hi.exc]
            ELSE BuildHeadings([done EXCEPT !.out = done.out \o << <<>> >>],
                               data, editable_dict, rest, changes, keys_only)

\* Config._build_for_file(changes, keys_only) with comment_spacing=0 and
\* ignore_comments=None: [exc, text, schema].
BuildForFile(data, schema, editable_dict, changes, keys_only) ==
    LET st == BuildHeadings([out |-> <<>>, schema |-> schema, exc |-> "none"],
                            data, editable_dict,
                            HeadingOrder(schema), changes, keys_only)
    IN [exc |-> st.exc,
        text |-> IF st.out = <<>> THEN <<>>
                 ELSE Join(SubSeq(st.out, 1, Len(st.out) - 1), <<NL>>),
        schema |-> st.schema]

\* ------------------------------------------------------------------------
\* The store as a state machine
\* ------------------------------------------------------------------------

Main == <<"M", "a", "i", "n">>

\* The entry names the calls on entries use.
VarV == <<"v">>

VarW == <<"w">>

Names == {VarV, VarW}

Low == <<"L", "o", "w">>

High == <<"H", "i", "g", "h">>

Medium == <<"M", "e", "d", "i", "u", "m">>

\* A metadata dictionary of the default schema holding value and type only.
Dict(value, type) ==
    [kind |-> "dict", value |-> value, type |-> type, default |-> Missing,
     lock |-> FALSE, min |-> None, max |-> None, has_valid |-> FALSE,
     valid |-> {}, case_sensitive |-> FALSE, allow_empty |-> FALSE,
     priority |-> None, comment |-> Missing]

\* A bare value of the default schema.
Scalar(value) == [Dict(value, "missing") EXCEPT !.kind = "scalar"]

\* The entries the default schemas are made of.
NumEntry(n) == [Dict(IntV(n), "int") EXCEPT !.min = IntV(0), !.max = IntV(10)]

ValidEntry(s, cs) ==
    [Dict(StrV(s), "str") EXCEPT !.has_valid = TRUE, !.valid = {Low, High},
                                 !.case_sensitive = cs]

CaseEntry(s) == [Dict(StrV(s), "str") EXCEPT !.case_sensitive = TRUE]

\* The default schemas a store is constructed from: one heading, entries with
\* values inside and outside their own rules.
Schemas ==
    { (Main :> ((VarV :> NumEntry(15)) @@ (VarW :> Scalar(BoolV(TRUE))))),
      (Main :> (VarV :> Scalar(StrV(<<>>)))),
      (Main :> (VarV :> ValidEntry(Low, FALSE))),
      (Main :> (VarV :> CaseEntry(<<"A", "B">>))),
      (Main :> (VarV :> [CaseEntry(<<"A", "B">>) EXCEPT !.lock = TRUE])) }

\* The default schemas of the stores whose entries are written with every
\* input value: one entry of each type and each combination of rules.
EntrySchemas ==
    { (Main :> (VarV :> e)) : e \in
        { NumEntry(5), NumEntry(15), Dict(IntV(5), "int"),
          Dict(StrV(Low), "str"), Scalar(StrV(<<>>)),
          ValidEntry(Low, FALSE), ValidEntry(Medium, FALSE),
          ValidEntry(Low, TRUE), CaseEntry(<<"A", "B">>),
          [Dict(StrV(<<"a">>), "str") EXCEPT !.allow_empty = TRUE],
          Scalar(BoolV(TRUE)), Dict(Missing, "bool") } }

\* The values written to entries.
Inputs ==
    { IntV(15), IntV(-3), IntV(0), IntV(1), IntV(7), None,
      StrV(<<>>), StrV(<<" ">>), StrV(<<"a", "b", "c">>),
      StrV(<<" ", "L", "o", "w", " ">>), StrV(<<"l", "o", "w">>), StrV(Medium),
      StrV(<<"N", "o">>), StrV(<<"N", "u", "l", "l">>), StrV(<<"y", "e", "s">>),
      StrV(<<"0">>), StrV(<<"1", "5">>), StrV(<<"-", "3">>),
      StrV(<<" ", "7", " ">>), StrV(<<"A", "/", "/", "b">>),
      StrV(<<"x", NL, "y">>), StrV(<<"A", "B">>) }

Line(var, value) == var \o <<" ", "=", " ">> \o value

Heading(name) == <<"[">> \o name \o <<"]">>

\* The files load can be given: their text, or NoFile for a name that cannot
\* be opened.  They assign the entry v, an entry z no schema has, and an entry
\* under a heading no schema has.
Files ==
    ("cfg" :> Join(<< Heading(Main),
                      Line(VarV, <<"H", "i", "g", "h", " ", "/", "/", " ", "c">>),
                      Line(<<"z">>, <<"1">>),
                      Heading(<<"Q">>),
                      Line(VarV, <<"1">>) >>, <<NL>>))
    @@ ("f1" :> Join(<< Heading(Main),
                        Line(VarV, <<"7">>),
                        Line(VarV, <<"A", "B">>) >>, <<NL>>))
    @@ ("f2" :> Join(<< Heading(Main),
                        Line(VarV, <<"L", "o", "w">>),
                        <<"v", " ", "=">> >>, <<NL>>))
    @@ ("bad" :> Join(<< Heading(Main),
                         Line(VarV, <<"3">>),
                         <<"o", "o", "p", "s">>,
                         Line(VarV, <<"0">>) >>, <<NL>>))
    @@ ("bq" :> Join(<< Heading(<<"Q">>),
                        <<"o", "o", "p", "s">> >>, <<NL>>))
    @@ ("none" :> NoFile)
    @@ ("" :> NoFile)

FileNames == DOMAIN Files

\* What _update_from_file reads from each file that opens.
ParsedFiles ==
    [f \in FileNames |-> IF Files[f] = NoFile THEN NoFile
                         ELSE ParseLines(Files[f])]

\* The most fallback files one load is given.
MaxFallbacks == 2

\* The names load is given as its primary file and as its fallback files.
PrimaryNames == {"cfg", "f2", "bad", "none"}

FallbackNames == {"f1", "f2", ""}

FallbackLists == UNION {[1..n -> FallbackNames] : n \in 0..MaxFallbacks}

\* The values written to entries between loads, saves and reloads.
FewInputs == {IntV(7), StrV(<<"A", "/", "/", "b">>), StrV(<<"x", NL, "y">>)}

VARIABLES
    data,           \* Config._data: heading -> name -> entry
    backup,         \* Config._backup: heading -> name -> value
    default,        \* Config._default: the default schema
    is_new,         \* Config.is_new
    editable_dict,  \* Config._editable_dict
    last            \* the last call: its arguments, the exception it raised
                    \* and the text it wrote

vars == <<data, backup, default, is_new, editable_dict, last>>

Call(op, heading, var, input, files, exc, text) ==
    [op |-> op, heading |-> heading, var |-> var, input |-> input,
     files |-> files, exc |-> exc, text |-> text]

\* Config.__init__(defaults, editable_dict=...)
Construct(defaults, editable) ==
    /\ default = defaults
    /\ editable_dict = editable
    /\ data = LoadFromDict(default)
    /\ backup = BackupOf(default)
    /\ is_new = FALSE
    /\ last = Call("init", <<>>, <<>>, None, <<>>, "none", <<>>)

Init == \E defaults \in Schemas : \E editable \in BOOLEAN :
            Construct(defaults, editable)

InitEntry == \E defaults \in EntrySchemas : Construct(defaults, TRUE)

\* What a call that returns or raises leaves behind: the store's data and the
\* record of the call.
Called(op, heading, var, input, r) ==
    /\ data' = r.data
    /\ last' = Call(op, heading, var, input, <<>>, r.exc, <<>>)
    /\ UNCHANGED <<backup, default, is_new, editable_dict>>

\* config[heading][var] = value
Set(heading, var, value) ==
    Called("set", heading, var, value,
           SetOp(data, heading, var, value, editable_dict))

\* config[heading][var]: _ConfigDict.__getitem__ builds the view.
Get(heading, var) ==
    Called("get", heading, var, None,
           InEntry(data, heading, var, CreateConfigItem(data[heading][var])))

\* config[heading][var].value = value: the view's value setter.
ViewSet(heading, var, value) ==
    Called("viewset", heading, var, value,
           InEntry(data, heading, var,
                   AssignThrough(CreateConfigItem(data[heading][var]), value)))

\* config[heading][var].lock = value: the view's lock setter.
SetLock(heading, var, value) ==
    Called("lock", heading, var, BoolV(value),
           InEntry(data, heading, var,
                   LockThrough(CreateConfigItem(data[heading][var]), value)))

Loaded(config_file, default_files, r) ==
    /\ data' = r.data
    /\ is_new' = r.is_new
    /\ last' = Call("load", <<>>, <<>>, None,
                    <<config_file>> \o default_files, r.exc, <<>>)
    /\ UNCHANGED <<backup, default, editable_dict>>

\* config.load(config_file, *default_files)
Load(config_file, default_files) ==
    Loaded(config_file, default_files,
           LoadOp(data, is_new, config_file, default_files, ParsedFiles,
                  editable_dict))

Saved(changes, r) ==
    /\ default' = r.schema
    /\ last' = Call("save", <<>>, <<>>, BoolV(changes), <<>>, r.exc,
                    IF r.exc = "none" THEN r.text ELSE <<>>)
    /\ UNCHANGED <<data, backup, is_new, editable_dict>>

\* config.save(file_name, changes=..., keys_only=...): the text handed to the
\* file is kept in last.text; create_folder and the write are the collaborators'.
Save(changes, keys_only) ==
    Saved(changes, BuildForFile(data, default, editable_dict, changes, keys_only))

\* config.reload()
Reload == Called("reload", <<>>, <<>>, None, ReloadOp(data, backup, editable_dict))

\* del config[heading][var]
DelEntry(heading, var) ==
    Called("delentry", heading, var, None, DelItemOp(data, heading, var))

\* del config[heading]
DelHeading(heading) ==
    Called("delheading", heading, <<>>, None, DelHeadingOp(data, heading))

\* config[heading] = value
SetHeading(heading, value) ==
    Called("setheading", heading, <<>>, value,
           SetHeadingOp(data, editable_dict, heading, value))

\* The calls on entries, with values from the set W.
EntryCalls(W) ==
    \/ \E h \in DOMAIN data : \E v \in DOMAIN data[h] \cap Names :
          \E x \in W : Set(h, v, x)
    \/ \E h \in DOMAIN data : \E v \in DOMAIN data[h] \cap Names : Get(h, v)
    \/ \E h \in DOMAIN data : \E v \in DOMAIN data[h] \cap Names :
          \E x \in W : ViewSet(h, v, x)
    \/ \E h \in DOMAIN data : \E v \in DOMAIN data[h] \cap Names :
          \E b \in BOOLEAN : SetLock(h, v, b)

Next ==
    \/ EntryCalls(FewInputs)
    \/ \E f \in PrimaryNames : \E fb \in FallbackLists : Load(f, fb)
    \/ \E c \in BOOLEAN : Save(c, FALSE)
    \/ Reload

\* The store over its whole life: entry calls, load, save and reload.
Spec == Init /\ [][Next]_vars

NextEntry ==
    \/ EntryCalls(Inputs)
    \/ Reload

\* The store under entry calls and reload only, with every input value.
SpecEntry == InitEntry /\ [][NextEntry]_vars

\* The default schemas of the stores whose structure is edited: entries with
\* and without a type of their own.
EditSchemas ==
    { (Main :> (VarV :> NumEntry(5))),
      (Main :> (VarV :> Dict(IntV(5), "missing"))) }

\* A name no schema has, for the entries and headings that are created.
VarZ == <<"z">>

HeadingQ == <<"Q">>

\* The values assigned to headings: a mapping, None and a value of another
\* type.
HeadingValues == {MappingV(VarV :> Dict(IntV(1), "int")), None, IntV(5)}

InitEdit == \E defaults \in EditSchemas : \E editable \in BOOLEAN :
                Construct(defaults, editable)

NextEdit ==
    \/ \E h \in DOMAIN data : \E v \in {VarV, VarZ} : Set(h, v, IntV(7))
    \/ \E h \in DOMAIN data : \E v \in DOMAIN data[h] : DelEntry(h, v)
    \/ \E h \in DOMAIN data : DelHeading(h)
    \/ \E h \in {Main, HeadingQ} : \E x \in HeadingValues : SetHeading(h, x)
    \/ \E fb \in {<<>>, <<"f1">>} : Load("cfg", fb)
    \/ \E c \in BOOLEAN : \E k \in BOOLEAN : Save(c, k)
    \/ Reload

\* The store under structural edits as well: entries and headings created
\* and deleted between entry calls, loads, saves and reloads.
SpecEdit == InitEdit /\ [][NextEdit]_vars

\* The default schemas of the stores that only load.
LoadSchemas ==
    { (Main :> (VarV :> Scalar(StrV(<<>>)))),
      (Main :> (VarV :> NumEntry(5))) }

\* The names those loads are given: as the primary file one that opens, one
\* with a line without '=' under a heading no schema has, and one that
\* cannot be opened; as fallbacks one that opens, one with a line without
\* '=' under a known heading, and one that cannot be opened.
LoadPrimaries == {"cfg", "bq", "none"}

LoadFallbackNames == {"f1", "bad", "none"}

LoadFallbackLists == UNION {[1..n -> LoadFallbackNames] : n \in 0..MaxFallbacks}

InitLoad == \E defaults \in LoadSchemas : \E editable \in BOOLEAN :
                Construct(defaults, editable)

NextLoad == \E f \in LoadPrimaries : \E fb \in LoadFallbackLists : Load(f, fb)

\* The store under loads alone, with files that fail to open and to parse.
SpecLoad == InitLoad /\ [][NextLoad]_vars

\* The greatest priority an entry is given.
MaxPriority == 3

\* The keys of the mappings the resolver is called on: upper case sorts
\* before lower case, a prefix before its extensions, and one key is private.
OrderKeys == {<<"a">>, <<"a", "b">>, <<"B">>, <<"_", "x">>}

\* The values of those mappings: a dictionary with a priority or without one,
\* or a bare value.
OrderEntries ==
    {[Dict(IntV(1), "int") EXCEPT !.priority = p] :
        p \in {None} \cup {IntV(i) : i \in 0..MaxPriority}}
    \cup {Scalar(IntV(1))}

OrderSchemas ==
    {(Main :> section) :
        section \in UNION {[K -> OrderEntries] : K \in SUBSET OrderKeys \ {{}}}}

InitOrder == \E defaults \in OrderSchemas : Construct(defaults, TRUE)

\* _get_priority_order(config._default[heading], empty_goes_last=arg); the
\* order returned is kept in last.text.
GetOrder(heading, arg) ==
    /\ last' = Call("order", heading, <<>>, arg, <<>>, "none",
                    OrderOf(default[heading], arg))
    /\ UNCHANGED <<data, backup, default, is_new, editable_dict>>

NextOrder ==
    \E h \in DOMAIN default : \E arg \in {Missing, BoolV(TRUE), BoolV(FALSE)} :
        GetOrder(h, arg)

\* The resolver called on the sections of a store's default schema.
SpecOrder == InitOrder /\ [][NextOrder]_vars

VarA == <<"a">>

\* The default schemas of the stores that save: two headings whose priorities
\* put them in another order than their names do, entries with and without
\* priorities, a heading comment of two lines and entry comments of one line
\* and of two.
SaveSchemas ==
    { (HeadingQ :> (PriorityKey :> Scalar(IntV(1))
                    @@ VarV :> [Dict(IntV(1), "int")
                                  EXCEPT !.comment = StrV(<<"m", NL, "n">>)]))
      @@ (Main :> (PriorityKey :> Scalar(IntV(2))
                   @@ InfoKey :> Scalar(StrV(<<"h", NL, "i">>))
                   @@ VarV :> [NumEntry(5) EXCEPT !.priority = IntV(2)]
                   @@ VarW :> [Dict(BoolV(TRUE), "bool")
                                 EXCEPT !.priority = IntV(1),
                                        !.comment = StrV(<<"c">>)]
                   @@ VarA :> Scalar(StrV(<<"x">>)))),
      (HeadingQ :> (PriorityKey :> Scalar(IntV(1))
                    @@ VarV :> Scalar(StrV(<<"A", NL, "b">>))))
      @@ (Main :> (InfoKey :> Scalar(StrV(<<"h">>))
                   @@ VarV :> [Dict(IntV(3), "int") EXCEPT !.comment = StrV(<<"c">>)]
                   @@ VarW :> [Dict(StrV(<<"y">>), "str")
                                 EXCEPT !.priority = IntV(1)])) }

InitSave == \E defaults \in SaveSchemas : \E editable \in BOOLEAN :
                Construct(defaults, editable)

NextSave ==
    \/ \E h \in DOMAIN data : \E v \in {VarV, VarW} : Set(h, v, IntV(7))
    \/ \E h \in DOMAIN data : \E v \in DOMAIN data[h] \ {PriorityKey, InfoKey} :
           DelEntry(h, v)
    \/ \E h \in DOMAIN data : DelHeading(h)
    \/ \E c \in BOOLEAN : \E k \in BOOLEAN : Save(c, k)

\* The store under saves in every mode, between writes and deletions of
\* entries and headings.
SpecSave == InitSave /\ [][NextSave]_vars

\* ------------------------------------------------------------------------
\* Properties.
\* ------------------------------------------------------------------------

\* C1: round trip.  After a save of a store with no locked entry, a fresh
\* store built from the same default schema that loads the saved text holds,
\* for every entry, the value the saving store holds.
C1_RoundTrip ==
    LET fresh == UpdateFromFile(LoadFromDict(default), ParseLines(last.text),
                                editable_dict).data
    IN (/\ last.op = "save" /\ last.exc = "none"
        /\ \A h \in DOMAIN data : \A v \in DOMAIN data[h] : ~data[h][v].lock)
       => \A h \in DOMAIN data : \A v \in DOMAIN data[h] :
             /\ h \in DOMAIN fresh
             /\ v \in DOMAIN fresh[h]
             /\ fresh[h][v].value = data[h][v].value

\* C2: after reload every entry's value equals its backup value, the value it
\* had at construction, locked entries and values that fail the entry's own
\* validation included.
C2_ReloadRestores ==
    last.op = "reload"
        => \A h \in DOMAIN backup : \A v \in DOMAIN backup[h] :
              data[h][v].value = backup[h][v]

\* C3: lock invariance.  A write to a locked entry, through the section's set,
\* through a view's value setter or through load, leaves its value unchanged.
C3_LockInvariance ==
    [][last'.op \in {"set", "viewset", "load"}
          => \A h \in DOMAIN data : \A v \in DOMAIN data[h] :
                data[h][v].lock => data'[h][v].value = data[h][v].value]_vars

\* C4: in every reachable state every unlocked entry's value has the entry's
\* type, lies within its bounds and is a member of its allowed set (compared
\* in lower case unless the entry is case sensitive).
C4_ValueValid ==
    \A h \in DOMAIN data : \A v \in DOMAIN data[h] :
        LET info == data[h][v]
        IN ~info.lock =>
            /\ info.value.t = info.type
            /\ (info.type = "int" /\ info.min # None)
                  => info.value.n >= info.min.n
            /\ (info.type = "int" /\ info.max # None)
                  => info.value.n <= info.max.n
            /\ (info.type = "str" /\ info.has_valid)
                  => IF info.case_sensitive THEN info.value.s \in info.valid
                     ELSE Lower(info.value.s) \in {Lower(i) : i \in info.valid}

\* C5: after load(primary, f1, ..., fn) every unlocked entry holds the value of
\* the highest-precedence file with an accepted assignment for it, primary
\* first, then f1, ..., fn; an entry assigned in no file keeps its value.
\* LastAccepted is the value of the last assignment to heading/var in a file's
\* lines that the entry's validation accepts (acc when there is none);
\* PrecedenceValue is that of the first file, in the order given, that has one.
C5_LoadPrecedence ==
    [][LET RECURSIVE LastAccepted(_, _, _, _, _, _)
          LastAccepted(items, header, heading, var, info, acc) ==
              IF items = <<>> THEN acc
              ELSE IF Head(items).kind = "header"
              THEN LastAccepted(Tail(items), Head(items).name, heading, var,
                                info, acc)
              ELSE IF Head(items).kind = "assign" /\ header = heading
                      /\ Head(items).name = var
                      /\ Validate(info, StrV(Head(items).value)).val # None
              THEN LastAccepted(Tail(items), header, heading, var, info,
                                Validate(info, StrV(Head(items).value)).val)
              ELSE LastAccepted(Tail(items), header, heading, var, info, acc)
          RECURSIVE PrecedenceValue(_, _, _, _, _)
          PrecedenceValue(names, heading, var, info, prior) ==
              IF names = <<>> THEN prior
              ELSE IF ParsedFiles[Head(names)] # NoFile
                      /\ LastAccepted(ParsedFiles[Head(names)], <<>>, heading,
                                      var, info, Missing) # Missing
              THEN LastAccepted(ParsedFiles[Head(names)], <<>>, heading, var,
                                info, Missing)
              ELSE PrecedenceValue(Tail(names), heading, var, info, prior)
      IN (last'.op = "load" /\ last'.exc = "none")
              => \A h \in DOMAIN data : \A v \in DOMAIN data[h] :
                    ~data[h][v].lock =>
                        data'[h][v].value =
                            PrecedenceValue(last'.files, h, v, data[h][v],
                                            data[h][v].value)]_vars

\* C6: load leaves the store as it would with every assignment to an unknown
\* variable or under an unknown heading removed from the files, and raises
\* what it would raise then, whether or not the store is editable.
\* KnownLines is a file's lines without the assignments whose heading or
\* variable has no counterpart in the schema.
C6_UnknownSkipped ==
    [][LET RECURSIVE KnownLines(_, _, _)
          KnownLines(items, header, schema) ==
              IF items = <<>> THEN <<>>
              ELSE IF Head(items).kind = "header"
              THEN <<Head(items)>>
                   \o KnownLines(Tail(items), Head(items).name, schema)
              ELSE IF Head(items).kind = "assign"
                      /\ (header \notin DOMAIN schema
                          \/ Head(items).name \notin DOMAIN schema[header])
              THEN KnownLines(Tail(items), header, schema)
              ELSE <<Head(items)>> \o KnownLines(Tail(items), header, schema)
          KnownFiles(schema) ==
              [f \in FileNames |-> IF ParsedFiles[f] = NoFile THEN NoFile
                                   ELSE KnownLines(ParsedFiles[f], <<>>, schema)]
      IN last'.op = "load"
              => LET r == LoadOp(data, is_new, Head(last'.files),
                                 Tail(last'.files), KnownFiles(default),
                                 editable_dict)
                 IN data' = r.data /\ last'.exc = r.exc]_vars

\* C7: numeric clamping.  A write to an unlocked int entry with both bounds
\* (min <= max) stores the input's number clamped into [min, max] when the
\* input is a number or text that parses as one, and changes nothing when the
\* input is text that does not parse.
C7_NumericClamping ==
    [][LET Into(lo, hi, n) == IF n < lo THEN lo ELSE IF n > hi THEN hi ELSE n
      IN \A h \in DOMAIN data : \A v \in DOMAIN data[h] :
              (/\ last'.op \in {"set", "viewset"}
               /\ last'.heading = h /\ last'.var = v
               /\ data[h][v].type = "int" /\ ~data[h][v].lock
               /\ data[h][v].min # None /\ data[h][v].max # None
               /\ data[h][v].min.n <= data[h][v].max.n
               /\ last'.input.t \in {"int", "str"})
              => /\ last'.exc = "none"
                 /\ data'[h][v].value =
                      IF last'.input.t = "int"
                      THEN IntV(Into(data[h][v].min.n, data[h][v].max.n,
                                     last'.input.n))
                      ELSE IF ParseInt(last'.input.s).ok
                      THEN IntV(Into(data[h][v].min.n, data[h][v].max.n,
                                     ParseInt(last'.input.s).n))
                      ELSE data[h][v].value]_vars

\* write(15) to an unlocked entry with min 0 and max 10 has stored 10.
C7_Witness ==
    /\ last.op = "set" /\ last.input = IntV(15) /\ last.exc = "none"
    /\ data[Main][VarV].type = "int" /\ ~data[Main][VarV].lock
    /\ data[Main][VarV].min = IntV(0) /\ data[Main][VarV].max = IntV(10)
    /\ data[Main][VarV].value = IntV(10)

\* C8: a write whose input cannot be coerced to the entry's type raises
\* nothing and leaves the entry's value as it was, for every type and input.
C8_FailedCoercionSilent ==
    [][\A h \in DOMAIN data : \A v \in DOMAIN data[h] :
          (/\ last'.op \in {"set", "viewset"}
           /\ last'.heading = h /\ last'.var = v
           /\ ~data[h][v].lock
           /\ Coerce(data[h][v].type, last'.input).exc # "none")
          => /\ last'.exc = "none"
             /\ data'[h][v].value = data[h][v].value]_vars

\* C9: boolean parsing.  A write of text to an unlocked bool entry stores
\* false exactly when the text, lower-cased, is one of 0, f, false, no, null,
\* n; a write of anything else stores its truthiness.
C9_BooleanParsing ==
    [][\A h \in DOMAIN data : \A v \in DOMAIN data[h] :
          (/\ last'.op \in {"set", "viewset"}
           /\ last'.heading = h /\ last'.var = v
           /\ data[h][v].type = "bool" /\ ~data[h][v].lock)
          => /\ last'.exc = "none"
             /\ data'[h][v].value =
                  IF last'.input.t = "str"
                  THEN BoolV(Lower(last'.input.s) \notin
                                {<<"0">>, <<"f">>, <<"f", "a", "l", "s", "e">>,
                                 <<"n", "o">>, <<"n", "u", "l", "l">>, <<"n">>})
                  ELSE BoolV(last'.input.t = "int" /\ last'.input.n # 0)]_vars

\* write("Null") to an unlocked bool entry has stored false.
C9_Witness ==
    /\ last.op = "set" /\ last.input = StrV(<<"N", "u", "l", "l">>)
    /\ last.exc = "none"
    /\ data[Main][VarV].type = "bool" /\ ~data[Main][VarV].lock
    /\ data[Main][VarV].value = BoolV(FALSE)

\* C10: string coercion.  A write of text to an unlocked str entry with no
\* allowed set stores the trimmed input, lower-cased when case_sensitive is
\* false and as written when it is true; input empty after trimming changes
\* nothing unless allow_empty is set.
C10_StringCoercion ==
    [][\A h \in DOMAIN data : \A v \in DOMAIN data[h] :
          (/\ last'.op \in {"set", "viewset"}
           /\ last'.heading = h /\ last'.var = v
           /\ data[h][v].type = "str" /\ ~data[h][v].lock
           /\ ~data[h][v].has_valid
           /\ last'.input.t = "str")
          => /\ last'.exc = "none"
             /\ data'[h][v].value =
                  IF Strip(last'.input.s) = <<>> /\ ~data[h][v].allow_empty
                  THEN data[h][v].value
                  ELSE IF data[h][v].case_sensitive
                  THEN StrV(Strip(last'.input.s))
                  ELSE StrV(Lower(Strip(last'.input.s)))]_vars

\* C11: allowed-set matching.  A write of text to an unlocked str entry with
\* an allowed set is accepted exactly when the trimmed input matches a member
\* (in lower case when case_sensitive is false, exactly when it is true); the
\* value stored is then the lower-cased input when case_sensitive is false and
\* the trimmed input when it is true; any other input leaves the value
\* unchanged.
C11_AllowedSet ==
    [][\A h \in DOMAIN data : \A v \in DOMAIN data[h] :
          (/\ last'.op \in {"set", "viewset"}
           /\ last'.heading = h /\ last'.var = v
           /\ data[h][v].type = "str" /\ ~data[h][v].lock
           /\ data[h][v].has_valid
           /\ last'.input.t = "str")
          => /\ last'.exc = "none"
             /\ data'[h][v].value =
                  IF data[h][v].case_sensitive
                  THEN (IF Strip(last'.input.s) \in data[h][v].valid
                        THEN StrV(Strip(last'.input.s))
                        ELSE data[h][v].value)
                  ELSE (IF Lower(Strip(last'.input.s))
                              \in {Lower(i) : i \in data[h][v].valid}
                        THEN StrV(Lower(Strip(last'.input.s)))
                        ELSE data[h][v].value)]_vars

\* C12: the resolver with empty_goes_last set returns every key that is not
\* private exactly once; the keys with a priority come first, by ascending
\* priority and by string order within a priority, and the keys without one
\* follow in string order.  One order only satisfies this, so the result
\* depends on the mapping alone.
C12_EmptyGoesLast ==
    LET section == default[last.heading]
        keys == {k \in DOMAIN section : Head(k) # "_"}
        prio(k) == EntryPriority(section[k])
        order == last.text
    IN (last.op = "order" /\ last.input = BoolV(TRUE)) =>
          /\ Len(order) = Cardinality(keys)
          /\ {order[i] : i \in 1..Len(order)} = keys
          /\ \A i \in 1..Len(order) : \A j \in (i + 1)..Len(order) :
                IF prio(order[i]) = None
                THEN prio(order[j]) = None /\ StrLess(order[i], order[j])
                ELSE \/ prio(order[j]) = None
                     \/ prio(order[i]).n < prio(order[j]).n
                     \/ /\ prio(order[i]).n = prio(order[j]).n
                        /\ StrLess(order[i], order[j])

\* {a: 0, B: 2, ab: none, _x: 1} has been ordered a, B, ab: the key without a
\* priority after the gap at slot 1 and after B, the private key left out.
C12_Witness ==
    /\ last.op = "order" /\ last.input = BoolV(TRUE)
    /\ DOMAIN default[Main] = OrderKeys
    /\ default[Main][<<"a">>].priority = IntV(0)
    /\ default[Main][<<"B">>].priority = IntV(2)
    /\ default[Main][<<"a", "b">>].priority = None
    /\ last.text = << <<"a">>, <<"B">>, <<"a", "b">> >>

\* C13: the resolver called with empty_goes_last left out places the keys
\* without a priority once, in string order, at the first slot it visits
\* that holds no key with a priority (it visits the slots upwards from the
\* lowest priority); the keys with a priority are in ascending priority and
\* string order around them.
C13_DefaultFillsGap ==
    LET section == default[last.heading]
        keys == {k \in DOMAIN section : Head(k) # "_"}
        prio(k) == EntryPriority(section[k])
        explicit == {prio(k).n : k \in {x \in keys : prio(x) # None}}
        start == IF explicit = {} THEN 0
                 ELSE CHOOSE i \in explicit : \A j \in explicit : i <= j
        gap == CHOOSE g \in start..(start + Cardinality(explicit)) :
                  /\ g \notin explicit
                  /\ \A i \in start..(g - 1) : i \in explicit
        rank(k) == IF prio(k) = None THEN 2 * gap - 1 ELSE 2 * prio(k).n
        order == last.text
    IN (last.op = "order" /\ last.input = Missing) =>
          /\ Len(order) = Cardinality(keys)
          /\ {order[i] : i \in 1..Len(order)} = keys
          /\ \A i \in 1..Len(order) : \A j \in (i + 1)..Len(order) :
                \/ rank(order[i]) < rank(order[j])
                \/ /\ rank(order[i]) = rank(order[j])
                   /\ StrLess(order[i], order[j])

\* C14 as stated: the resolver with empty_goes_last cleared places the keys
\* without a priority at the first slot, counted from slot 0, that holds no
\* key with a priority ({a: 2, c: none} gives c, a).
C14_FillsGapFromZero ==
    LET section == default[last.heading]
        keys == {k \in DOMAIN section : Head(k) # "_"}
        prio(k) == EntryPriority(section[k])
        explicit == {prio(k).n : k \in {x \in keys : prio(x) # None}}
        start == 0
        gap == CHOOSE g \in start..(start + Cardinality(explicit)) :
                  /\ g \notin explicit
                  /\ \A i \in start..(g - 1) : i \in explicit
        rank(k) == IF prio(k) = None THEN 2 * gap - 1 ELSE 2 * prio(k).n
        order == last.text
    IN (last.op = "order" /\ last.input = BoolV(FALSE)) =>
          /\ Len(order) = Cardinality(keys)
          /\ {order[i] : i \in 1..Len(order)} = keys
          /\ \A i \in 1..Len(order) : \A j \in (i + 1)..Len(order) :
                \/ rank(order[i]) < rank(order[j])
                \/ /\ rank(order[i]) = rank(order[j])
                   /\ StrLess(order[i], order[j])

\* C14 as amended: the resolver with empty_goes_last cleared places the keys
\* without a priority at the first slot, counted from the lowest priority
\* present (from 0 when no key has one), that holds no key with a priority:
\* they never precede the keys of the lowest priority.
C14_FillsGapFromLowest ==
    LET section == default[last.heading]
        keys == {k \in DOMAIN section : Head(k) # "_"}
        prio(k) == EntryPriority(section[k])
        explicit == {prio(k).n : k \in {x \in keys : prio(x) # None}}
        start == IF explicit = {} THEN 0
                 ELSE CHOOSE i \in explicit : \A j \in explicit : i <= j
        gap == CHOOSE g \in start..(start + Cardinality(explicit)) :
                  /\ g \notin explicit
                  /\ \A i \in start..(g - 1) : i \in explicit
        rank(k) == IF prio(k) = None THEN 2 * gap - 1 ELSE 2 * prio(k).n
        order == last.text
    IN (last.op = "order" /\ last.input = BoolV(FALSE)) =>
          /\ Len(order) = Cardinality(keys)
          /\ {order[i] : i \in 1..Len(order)} = keys
          /\ \A i \in 1..Len(order) : \A j \in (i + 1)..Len(order) :
                \/ rank(order[i]) < rank(order[j])
                \/ /\ rank(order[i]) = rank(order[j])
                   /\ StrLess(order[i], order[j])

\* {a: 2, ab: none} has been ordered a, ab with empty_goes_last cleared.
C14_Witness ==
    /\ last.op = "order" /\ last.input = BoolV(FALSE)
    /\ DOMAIN default[Main] = {<<"a">>, <<"a", "b">>}
    /\ default[Main][<<"a">>].priority = IntV(2)
    /\ default[Main][<<"a", "b">>].priority = None
    /\ last.text = << <<"a">>, <<"a", "b">> >>

\* C15: on a store that is not editable, deleting an entry and deleting a
\* heading both fail and leave the store's headings and entries as they were.
C15_DeleteGated ==
    [][(last'.op \in {"delentry", "delheading"} /\ ~editable_dict)
          => last'.exc # "none" /\ data' = data]_vars

\* C16: on a store that is not editable, a set of an entry name the section
\* does not have and an assignment to a heading, present or not, both fail
\* with the KeyError of a store that is not editable and leave the store's
\* headings, entries and values as they were.
C16_CreateGated ==
    [][(/\ ~editable_dict
        /\ \/ last'.op = "setheading"
           \/ /\ last'.op = "set"
              /\ last'.heading \in DOMAIN data
              /\ last'.var \notin DOMAIN data[last'.heading])
          => last'.exc = "KeyError" /\ data' = data]_vars

\* On a store that is not editable, the assignment of a mapping to the new
\* heading Q has raised KeyError and the store has no heading Q.
C16_Witness ==
    /\ ~editable_dict
    /\ last.op = "setheading" /\ last.heading = HeadingQ
    /\ last.input.t = "dict"
    /\ last.exc = "KeyError"
    /\ HeadingQ \notin DOMAIN data

\* C17: the default schema is never mutated: every call leaves it with the
\* headings, entries and metadata fields it had.
C17_DefaultUnchanged == [][default' = default]_vars

\* C20: reload raises nothing and leaves the store with the headings it had
\* and, under each, the entries it had.
C20_ReloadKeepsStructure ==
    [][last'.op = "reload"
          => /\ last'.exc = "none"
             /\ DOMAIN data' = DOMAIN data
             /\ \A h \in DOMAIN data : DOMAIN data'[h] = DOMAIN data[h]]_vars

\* C18: a load whose primary file cannot be opened behaves as a load of an
\* empty primary file (it applies the fallbacks and raises only what they
\* raise) and, when it returns, has set is_new; a load whose primary file
\* opens leaves is_new as it was, whatever fallback cannot be opened.
C18_PrimaryUnopenable ==
    [][last'.op = "load"
          => LET primary == Head(last'.files)
                 r == LoadOp(data, is_new, primary, Tail(last'.files),
                             (primary :> <<>>) @@ ParsedFiles, editable_dict)
             IN IF ParsedFiles[primary] = NoFile
                THEN /\ last'.exc = r.exc
                     /\ data' = r.data
                     /\ r.exc = "none" => is_new'
                ELSE is_new' = is_new]_vars

\* load('none', 'f1') on a fresh store with a str entry v has returned, with
\* the fallback's last value in v and is_new set.
C18_Witness ==
    /\ last.op = "load" /\ last.files = <<"none", "f1">> /\ last.exc = "none"
    /\ is_new
    /\ data[Main][VarV].value = StrV(<<"A", "B">>)

\* C19: a load that reads a file with a line that is neither blank, nor a
\* heading, nor has an '=', as its primary file or as a fallback, under a
\* known heading or not, raises an error.
C19_StrictSyntax ==
    [][last'.op = "load"
          => LET primary == Head(last'.files)
                 fallbacks == {last'.files[i] : i \in 2..Len(last'.files)}
                 read == {f \in ({primary} \cup (fallbacks \ {""})) :
                             ParsedFiles[f] # NoFile}
             IN (\E f \in read : \E i \in 1..Len(ParsedFiles[f]) :
                    ParsedFiles[f][i].kind = "malformed")
                => last'.exc # "none"]_vars

\* load('cfg', 'bad') has raised ValueError at the fallback's line without
\* '=', after the fallback's first assignment was applied.
C19_Witness ==
    /\ last.op = "load" /\ last.files = <<"cfg", "bad">>
    /\ last.exc = "ValueError"
    /\ data[Main][VarV].value \in {StrV(<<"3">>), IntV(3)}

\* C22: reading is free of side effects: obtaining an entry's view through
\* the section leaves the entry's value, its other fields and the rest of
\* the store as they were.
C22_ReadNoEffect ==
    [][last'.op = "get"
          => /\ last'.exc = "none"
             /\ data' = data
             /\ UNCHANGED <<backup, default, is_new, editable_dict>>]_vars

\* C24: a heading assignment that raises TypeError leaves the store with the
\* headings, entries and values it had before the call.
C24_FailedAssignNoEffect ==
    [][(last'.op = "setheading" /\ last'.exc = "TypeError")
          => data' = data]_vars

\* C21: the text of a save has one [Heading] line for each heading of the
\* default schema still in the store, in the resolver's order over the
\* schema's headings, each followed by one 'name = value' line for each
\* entry of the schema still in that heading, in the resolver's order over
\* the heading's schema entries, whatever the values and the earlier writes.
C21_SaveOrder ==
    (last.op = "save" /\ last.exc = "none")
        => LET items == ParseLines(last.text)
               shown == SelectSeq(items,
                           LAMBDA it : it.kind \in {"header", "assign"})
               headings == SelectSeq(HeadingOrder(default),
                              LAMBDA h : h \in DOMAIN data)
               Variables(h) == SelectSeq(VariableOrder(default[h]),
                                  LAMBDA v : v \in DOMAIN data[h])
               Block(h) == <<[kind |-> "header", name |-> h]>>
                           \o [i \in 1..Len(Variables(h)) |->
                                  [kind |-> "assign", name |-> Variables(h)[i]]]
               RECURSIVE Blocks(_)
               Blocks(hs) == IF hs = <<>> THEN <<>>
                             ELSE Block(Head(hs)) \o Blocks(Tail(hs))
           IN [i \in 1..Len(shown) |->
                  [kind |-> shown[i].kind, name |-> shown[i].name]]
              = Blocks(headings)

\* C23: every line of the text of a save is, once its comment is stripped,
\* blank, a [Heading] line or a line with an '=', so a load of it does not
\* raise the error of a line without '='.
C23_SavedTextLoads ==
    (last.op = "save" /\ last.exc = "none")
        => LET items == ParseLines(last.text)
           IN \A i \in 1..Len(items) : items[i].kind # "malformed"

====
